---------------------------- MODULE Spec2Model ----------------------------
(***************************************************************************)
(* Model of the health-clinic appointment backend.                         *)
(*                                                                         *)
(* Two entry files exist: src/app.js (all routes, time-slot validation)    *)
(* and src/unnamed/part_000 (hosted variant: list-by-doctor, booking       *)
(* without time-slot validation, seeding).  `variant` says which one the   *)
(* process runs.                                                           *)
(*                                                                         *)
(* The store is the Appointment table (`rows`, with the store-generated    *)
(* appointment_id drawn from `nextId`).  Every db.query call appends one   *)
(* command to the single connection `db`; the connection runs its commands *)
(* one at a time in the order they were issued (`queue`) and each          *)
(* command's callback runs when its result arrives.  A handler is thus a   *)
(* synchronous part (validation, first db.query) followed by one step per  *)
(* callback.                                                               *)
(***************************************************************************)
EXTENDS Integers, Sequences, FiniteSets, TLC

(***************************************************************************)
(* Bounds of the model.                                                    *)
(***************************************************************************)
\* requests received
MaxReq == 2
\* length of the prefix of the seed list that is used
SeedLen == 2
\* store queries that fail, over the whole run
MaxErr == 1
\* process restarts
MaxRestarts == 1
\* appointment ids that update and delete requests name
MaxId == 2

VARIABLES
    variant,   \* "app" (src/app.js) or "part" (src/unnamed/part_000)
    phase,     \* "starting", "connected", "failed" (db.connect), "crashed"
    rows,      \* the Appointment table
    nextId,    \* next appointment_id the store generates
    queue,     \* commands issued on db and not yet run, oldest first
    reqs,      \* the requests this process received, with their responses
    errs,      \* store failures so far
    restarts,  \* process restarts so far
    seedRuns   \* history: seed runs that ran to completion, over all processes

vars == <<variant, phase, rows, nextId, queue, reqs, errs, restarts, seedRuns>>

(***************************************************************************)
(* Values.  A missing (undefined) body field is 0 for the ids, "" for a    *)
(* date or a status, and the empty text for a time: each is falsy in JS.   *)
(* A time is its text, character by character.                             *)
(***************************************************************************)
NoId == 0
NoText == ""
NoTime == << >>

T0900 == <<"0", "9", ":", "0", "0">>
T0930 == <<"0", "9", ":", "3", "0">>
T0915 == <<"0", "9", ":", "1", "5">>
T1000 == <<"1", "0", ":", "0", "0">>
T1030 == <<"1", "0", ":", "3", "0">>
T1100 == <<"1", "1", ":", "0", "0">>
\* a time without a minutes part
T09 == <<"0", "9">>

D0411 == "2025-04-11"

NaN == -1

DigitValue(c) ==
    CASE c = "0" -> 0 [] c = "1" -> 1 [] c = "2" -> 2 [] c = "3" -> 3
      [] c = "4" -> 4 [] c = "5" -> 5 [] c = "6" -> 6 [] c = "7" -> 7
      [] c = "8" -> 8 [] c = "9" -> 9 [] OTHER -> NaN

\* JS Number(text) on a text of decimal digits: the empty text is 0, a text
\* holding anything but digits is NaN.
RECURSIVE Number(_)
Number(s) ==
    IF s = << >> THEN 0
    ELSE LET init == Number(SubSeq(s, 1, Len(s) - 1))
             d == DigitValue(s[Len(s)])
         IN  IF init = NaN \/ d = NaN THEN NaN ELSE 10 * init + d

\* text.split(':')
RECURSIVE split(_)
split(s) ==
    IF \A i \in 1..Len(s) : s[i] # ":" THEN <<s>>
    ELSE LET k == CHOOSE i \in 1..Len(s) :
                      s[i] = ":" /\ \A j \in 1..(i - 1) : s[j] # ":"
         IN  <<SubSeq(s, 1, k - 1)>> \o split(SubSeq(s, k + 1, Len(s)))


\* Mutant of isValidTimeSlot: any minute up to 30 passes.
isValidTimeSlotUpTo30(time) ==
    LET parts == split(time)
        minutes == IF Len(parts) >= 2 THEN Number(parts[2]) ELSE NaN
    IN  minutes \in 0..30

\* src/app.js: const isValidTimeSlot = (time) => { const [hours, minutes] =
\* time.split(':').map(Number); return minutes === 0 || minutes === 30; }
\* A text without ':' leaves minutes undefined, which is neither 0 nor 30.
isValidTimeSlot(time) ==
    LET parts == split(time)
        minutes == IF Len(parts) >= 2 THEN Number(parts[2]) ELSE NaN
    IN  minutes = 0 \/ minutes = 30

(***************************************************************************)
(* The seed list.  The first five entries are the same in both files       *)
(* (part_000 has only these five, app.js forty); the model seeds the       *)
(* first SeedLen of them.                                                  *)
(***************************************************************************)
appointments ==
    << [patient_id |-> 1, doctor_id |-> 1, appointment_date |-> D0411, appointment_time |-> T0900],
       [patient_id |-> 2, doctor_id |-> 1, appointment_date |-> D0411, appointment_time |-> T0930],
       [patient_id |-> 3, doctor_id |-> 1, appointment_date |-> D0411, appointment_time |-> T1000],
       [patient_id |-> 4, doctor_id |-> 1, appointment_date |-> D0411, appointment_time |-> T1030],
       [patient_id |-> 5, doctor_id |-> 1, appointment_date |-> D0411, appointment_time |-> T1100] >>

SeedIdx == 1..SeedLen

(***************************************************************************)
(* The tables this service only reads.  Their rows are not in the source:  *)
(* an appointment references its patient and its doctor, so every id the   *)
(* seed list and the requests of the model use has its row here, and an    *)
(* id identifies one row.                                                  *)
(***************************************************************************)
Patient ==
    { [patient_id |-> 1, name |-> "patient one"],
      [patient_id |-> 2, name |-> "patient two"],
      [patient_id |-> 3, name |-> "patient three"],
      [patient_id |-> 4, name |-> "patient four"],
      [patient_id |-> 5, name |-> "patient five"] }

Doctor ==
    { [doctor_id |-> 1, name |-> "doctor one"],
      [doctor_id |-> 2, name |-> "doctor two"] }

(***************************************************************************)
(* Request inputs.                                                         *)
(***************************************************************************)
Ids == 1..MaxId

\* GET /appointments/doctor/:doctor_id?date= : the doctor of the seed list
\* and another one, a date or none.
DoctorIds == {1, 2}
Dates == {D0411, NoText}

\* GET /appointments/patient?patient_id= : a patient of the seed list or none.
PatientIds == {1, NoId}

\* POST /book-appointment bodies: two patients asking for a slot of the seed
\* list and for another slot of the same doctor, the same time with another
\* doctor, a time off the half hour, a time without minutes, and one body
\* per missing field.
BookBodies ==
    [patient_id : {1, 2}, doctor_id : {1},
     appointment_date : {D0411}, appointment_time : {T0900, T1100}]
    \cup
    { [patient_id |-> 1, doctor_id |-> 2, appointment_date |-> D0411, appointment_time |-> T0900],
      [patient_id |-> 1, doctor_id |-> 1, appointment_date |-> D0411, appointment_time |-> T0915],
      [patient_id |-> 2, doctor_id |-> 1, appointment_date |-> D0411, appointment_time |-> T09],
      [patient_id |-> NoId, doctor_id |-> 1, appointment_date |-> D0411, appointment_time |-> T0900],
      [patient_id |-> 1, doctor_id |-> NoId, appointment_date |-> D0411, appointment_time |-> T0900],
      [patient_id |-> 1, doctor_id |-> 1, appointment_date |-> NoText, appointment_time |-> T0900],
      [patient_id |-> 1, doctor_id |-> 1, appointment_date |-> D0411, appointment_time |-> NoTime] }

\* PUT /appointments/:appointment_id bodies.
UpdateBodies ==
    [appointment_date : {D0411}, appointment_time : {T0900, T0930, T1100}, status : {NoText}]
    \cup
    { [appointment_date |-> D0411, appointment_time |-> T0900, status |-> "Completed"],
      [appointment_date |-> D0411, appointment_time |-> T0930, status |-> "any text"],
      [appointment_date |-> D0411, appointment_time |-> T0915, status |-> NoText],
      [appointment_date |-> NoText, appointment_time |-> T0900, status |-> NoText],
      [appointment_date |-> D0411, appointment_time |-> NoTime, status |-> NoText] }

(***************************************************************************)
(* The store's queries.                                                    *)
(***************************************************************************)
\* Mutant of checkDoctorAvailabilityQuery: only 'Scheduled' rows count.
checkDoctorAvailabilityQueryActive(doctor_id, appointment_date, appointment_time) ==
    { r \in rows : /\ r.doctor_id = doctor_id
                   /\ r.appointment_date = appointment_date
                   /\ r.appointment_time = appointment_time
                   /\ r.status = "Scheduled" }

\* SELECT * FROM Appointment WHERE doctor_id = ? AND appointment_date = ?
\* AND appointment_time = ?
checkDoctorAvailabilityQuery(doctor_id, appointment_date, appointment_time) ==
    { r \in rows : /\ r.doctor_id = doctor_id
                   /\ r.appointment_date = appointment_date
                   /\ r.appointment_time = appointment_time }

\* Mutant of checkAvailabilityQuery: the appointment itself is not excluded.
checkAvailabilityQueryWithSelf(appointmentId, appointment_date, appointment_time) ==
    { r \in rows : /\ \E a \in rows : /\ a.appointment_id = appointmentId
                                      /\ r.doctor_id = a.doctor_id
                   /\ r.appointment_date = appointment_date
                   /\ r.appointment_time = appointment_time }

\* Mutant of checkAvailabilityQuery: the doctor is not looked up, any
\* doctor's appointment at the new date/time counts.
checkAvailabilityQueryAnyDoctor(appointmentId, appointment_date, appointment_time) ==
    { r \in rows : /\ r.appointment_date = appointment_date
                   /\ r.appointment_time = appointment_time
                   /\ r.appointment_id # appointmentId }

\* SELECT * FROM Appointment WHERE doctor_id = (SELECT doctor_id FROM
\* Appointment WHERE appointment_id = ?) AND appointment_date = ? AND
\* appointment_time = ? AND appointment_id != ?
\* With no row of that id the subquery is NULL and no row matches.
checkAvailabilityQuery(appointmentId, appointment_date, appointment_time) ==
    { r \in rows : /\ \E a \in rows : /\ a.appointment_id = appointmentId
                                      /\ r.doctor_id = a.doctor_id
                   /\ r.appointment_date = appointment_date
                   /\ r.appointment_time = appointment_time
                   /\ r.appointment_id # appointmentId }

\* Mutant of checkQuery: patient and doctor are bound the wrong way round.
checkQuerySwapped(appt) ==
    { r \in rows : /\ r.patient_id = appt.doctor_id
                   /\ r.doctor_id = appt.patient_id
                   /\ r.appointment_date = appt.appointment_date
                   /\ r.appointment_time = appt.appointment_time }

\* The seed's SELECT * FROM Appointment WHERE patient_id = ? AND doctor_id = ?
\* AND appointment_date = ? AND appointment_time = ?
checkQuery(appt) ==
    { r \in rows : /\ r.patient_id = appt.patient_id
                   /\ r.doctor_id = appt.doctor_id
                   /\ r.appointment_date = appt.appointment_date
                   /\ r.appointment_time = appt.appointment_time }

\* Mutant of insertQuery: the store refuses a second row in a slot (a
\* uniqueness constraint, INSERT IGNORE).
insertQueryUnique(b) ==
    IF \E r \in rows : /\ r.doctor_id = b.doctor_id
                       /\ r.appointment_date = b.appointment_date
                       /\ r.appointment_time = b.appointment_time
    THEN rows
    ELSE rows \cup { [appointment_id |-> nextId,
                      patient_id |-> b.patient_id,
                      doctor_id |-> b.doctor_id,
                      appointment_date |-> b.appointment_date,
                      appointment_time |-> b.appointment_time,
                      status |-> "Scheduled"] }

\* Mutant of insertQuery: patient and doctor are bound the wrong way round.
insertQuerySwapped(b) ==
    rows \cup { [appointment_id |-> nextId,
                 patient_id |-> b.doctor_id,
                 doctor_id |-> b.patient_id,
                 appointment_date |-> b.appointment_date,
                 appointment_time |-> b.appointment_time,
                 status |-> "Scheduled"] }

\* INSERT INTO Appointment (patient_id, doctor_id, appointment_date,
\* appointment_time, status) VALUES (?, ?, ?, ?, 'Scheduled'): the store
\* generates the appointment_id.
insertQuery(b) ==
    rows \cup { [appointment_id |-> nextId,
                 patient_id |-> b.patient_id,
                 doctor_id |-> b.doctor_id,
                 appointment_date |-> b.appointment_date,
                 appointment_time |-> b.appointment_time,
                 status |-> "Scheduled"] }

\* Mutant of updateQuery: the store refuses a second row in a slot.
updateQueryUnique(appointment_date, appointment_time, status, appointmentId) ==
    IF \E a, r \in rows :
         /\ a.appointment_id = appointmentId
         /\ r.appointment_id # appointmentId
         /\ r.doctor_id = a.doctor_id
         /\ r.appointment_date = appointment_date
         /\ r.appointment_time = appointment_time
    THEN rows
    ELSE { IF r.appointment_id = appointmentId
           THEN [r EXCEPT !.appointment_date = appointment_date,
                          !.appointment_time = appointment_time,
                          !.status = status]
           ELSE r : r \in rows }

\* Mutant of updateQuery: the WHERE clause is missing.
updateQueryAll(appointment_date, appointment_time, status, appointmentId) ==
    { [r EXCEPT !.appointment_date = appointment_date,
                !.appointment_time = appointment_time,
                !.status = status] : r \in rows }

\* UPDATE Appointment SET appointment_date = ?, appointment_time = ?,
\* status = ? WHERE appointment_id = ?
updateQuery(appointment_date, appointment_time, status, appointmentId) ==
    { IF r.appointment_id = appointmentId
      THEN [r EXCEPT !.appointment_date = appointment_date,
                     !.appointment_time = appointment_time,
                     !.status = status]
      ELSE r : r \in rows }

\* The value of a TIME column the store orders by: 'hh:mm' is hh hours and
\* mm minutes, a text without ':' is a number of seconds.
TimeValue(time) ==
    LET parts == split(time)
    IN  IF Len(parts) >= 2
        THEN Number(parts[1]) * 3600 + Number(parts[2]) * 60
        ELSE Number(parts[1])

\* The value of a DATE column the store orders by.
DateValue(date) == IF date = D0411 THEN 20250411 ELSE 0

\* The orders in which the store may return the result set `found` under
\* ORDER BY: every arrangement of its rows, each once, in which no row
\* comes after one that the pairs of `before` put it before (rows that tie
\* come in any order).
Ordered(found, before) ==
    { s \in [1..Cardinality(found) -> found] :
        /\ \A m, n \in DOMAIN s : m # n => s[m] # s[n]
        /\ \A m, n \in DOMAIN s : m < n => <<s[n], s[m]>> \notin before }

\* Mutant of listDoctorQuery: ORDER BY a.appointment_time DESC.
listDoctorQueryDesc(doctorId, appointmentDate) ==
    LET found == { [a |-> x[1], patient_name |-> x[2].name] : x \in
                     { ap \in rows \X Patient :
                         /\ ap[1].patient_id = ap[2].patient_id
                         /\ ap[1].doctor_id = doctorId
                         /\ ap[1].appointment_date = appointmentDate } }
        before == { xy \in found \X found :
                      TimeValue(xy[1].a.appointment_time) > TimeValue(xy[2].a.appointment_time) }
    IN  Ordered(found, before)

\* SELECT a.*, p.name AS patient_name FROM Appointment a
\* JOIN Patient p ON a.patient_id = p.patient_id
\* WHERE a.doctor_id = ? AND a.appointment_date = ?
\* ORDER BY a.appointment_time ASC
\* A result row is the appointment `a` and the patient's name beside it.
listDoctorQuery(doctorId, appointmentDate) ==
    LET found == { [a |-> x[1], patient_name |-> x[2].name] : x \in
                     { ap \in rows \X Patient :
                         /\ ap[1].patient_id = ap[2].patient_id
                         /\ ap[1].doctor_id = doctorId
                         /\ ap[1].appointment_date = appointmentDate } }
        before == { xy \in found \X found :
                      TimeValue(xy[1].a.appointment_time) < TimeValue(xy[2].a.appointment_time) }
    IN  Ordered(found, before)

\* SELECT a.*, d.name AS doctor_name FROM Appointment a
\* JOIN Doctor d ON a.doctor_id = d.doctor_id WHERE a.patient_id = ?
\* ORDER BY a.appointment_date, a.appointment_time
listPatientQuery(patient_id) ==
    LET found == { [a |-> x[1], doctor_name |-> x[2].name] : x \in
                     { ad \in rows \X Doctor :
                         /\ ad[1].doctor_id = ad[2].doctor_id
                         /\ ad[1].patient_id = patient_id } }
        before == { xy \in found \X found :
                      \/ DateValue(xy[1].a.appointment_date) < DateValue(xy[2].a.appointment_date)
                      \/ /\ DateValue(xy[1].a.appointment_date) = DateValue(xy[2].a.appointment_date)
                         /\ TimeValue(xy[1].a.appointment_time) < TimeValue(xy[2].a.appointment_time) }
    IN  Ordered(found, before)

\* Mutant of deleteQuery: the WHERE clause is missing.
deleteQueryAll(appointmentId) == {}

\* DELETE FROM Appointment WHERE appointment_id = ?
deleteQuery(appointmentId) ==
    { r \in rows : r.appointment_id # appointmentId }

\* result.affectedRows of an UPDATE or DELETE by id: the rows the WHERE
\* clause matched (the connection is opened with the driver's default flags,
\* which ask the store to report matched rows, not changed rows).
affectedRows(appointmentId) ==
    Cardinality({ r \in rows : r.appointment_id = appointmentId })

(***************************************************************************)
(* Requests and commands.                                                  *)
(***************************************************************************)
\* A request as received: its route, its parameters, where its handler
\* stands ("check": first query issued, "write": second query issued,
\* "done": answered, "lost": the process ended first) and its response
\* (code 0: none yet; body: the array a list route answers with).
Request(kind, appointmentId, b, status) ==
    [kind |-> kind,
     appointment_id |-> appointmentId,
     patient_id |-> b.patient_id,
     doctor_id |-> b.doctor_id,
     appointment_date |-> b.appointment_date,
     appointment_time |-> b.appointment_time,
     status |-> status,
     pc |-> "check",
     code |-> 0,
     message |-> "",
     body |-> << >>]

\* res.status(code).json({ message })
Respond(r, code, message) ==
    [r EXCEPT !.pc = "done", !.code = code, !.message = message]

\* res.status(code).json(results)
RespondJson(r, code, results) ==
    [r EXCEPT !.pc = "done", !.code = code, !.body = results]

\* db.query(...): one command, for request `req` (0: the seed) or seed
\* entry `appt` (0: a request).
Command(q, req, appt) == [q |-> q, req |-> req, appt |-> appt]

\* The result of the command the connection runs next: a failure (err) when
\* the connection never came up, otherwise a failure or a success.
StoreAnswers(err) ==
    /\ queue # << >>
    /\ \/ phase = "failed" /\ err /\ errs' = errs
       \/ phase = "connected" /\ ~err /\ errs' = errs
       \/ phase = "connected" /\ err /\ errs < MaxErr /\ errs' = errs + 1

\* Some command of the seed is still to run.
SeedPending(q) == \E n \in DOMAIN q : q[n].q \in {"seedCheck", "seedInsert"}

Accepting == phase \in {"starting", "connected", "failed"} /\ Len(reqs) < MaxReq

(***************************************************************************)
(* Startup.                                                                *)
(***************************************************************************)
\* const insertDefaultAppointments = () => { appointments.forEach(appt =>
\* db.query(checkQuery, ...)) }: one check per entry, all issued at once.
insertDefaultAppointments ==
    queue \o [k \in SeedIdx |-> Command("seedCheck", 0, k)]

\* Mutant of Connect: the seed is started whether the connection came up
\* or not.
ConnectThenSeed(err) ==
    /\ phase = "starting"
    /\ phase' = IF err THEN "failed" ELSE "connected"
    /\ queue' = insertDefaultAppointments
    /\ UNCHANGED <<variant, seedRuns, rows, nextId, reqs, errs, restarts>>

\* db.connect(err => { if (err) { console.error(...); return; }
\*                     insertDefaultAppointments(); })
Connect(err) ==
    /\ phase = "starting"
    /\ IF err
       THEN phase' = "failed" /\ queue' = queue
       ELSE phase' = "connected" /\ queue' = insertDefaultAppointments
    /\ UNCHANGED <<variant, seedRuns, rows, nextId, reqs, errs, restarts>>

\* The process is stopped and started again: its connection and its pending
\* commands are gone, its open requests are never answered ("lost"), the
\* store stays.
Restart ==
    /\ restarts < MaxRestarts
    /\ restarts' = restarts + 1
    /\ phase' = "starting"
    /\ queue' = << >>
    /\ reqs' = [i \in DOMAIN reqs |->
                   IF reqs[i].pc = "done" THEN reqs[i] ELSE [reqs[i] EXCEPT !.pc = "lost"]]
    /\ UNCHANGED <<variant, seedRuns, rows, nextId, errs>>

(***************************************************************************)
(* POST /book-appointment                                                  *)
(***************************************************************************)
Book(b) ==
    /\ Accepting
    /\ LET r == Request("book", NoId, b, NoText)
           i == Len(reqs) + 1
       IN  IF \/ b.patient_id = NoId \/ b.doctor_id = NoId
              \/ b.appointment_date = NoText \/ b.appointment_time = NoTime
           THEN /\ reqs' = Append(reqs, Respond(r, 400, "All fields are required"))
                /\ queue' = queue
           ELSE IF variant = "app" /\ ~isValidTimeSlot(b.appointment_time)
           THEN /\ reqs' = Append(reqs, Respond(r, 400,
                              "Appointment time must be in 30-minute intervals (e.g., 10:00, 10:30)"))
                /\ queue' = queue
           ELSE /\ reqs' = Append(reqs, r)
                /\ queue' = Append(queue, Command("bookCheck", i, 0))
    /\ UNCHANGED <<variant, seedRuns, phase, rows, nextId, errs, restarts>>

\* callback of checkDoctorAvailabilityQuery
BookCheck(err) ==
    /\ StoreAnswers(err)
    /\ Head(queue).q = "bookCheck"
    /\ LET i == Head(queue).req
           r == reqs[i]
           results == checkDoctorAvailabilityQuery(r.doctor_id, r.appointment_date,
                                                   r.appointment_time)
       IN  IF err
           THEN /\ reqs' = [reqs EXCEPT ![i] = Respond(r, 500, "Internal server error")]
                /\ queue' = Tail(queue)
           ELSE IF Cardinality(results) > 0
           THEN /\ reqs' = [reqs EXCEPT ![i] = Respond(r, 400, "Doctor is already booked at this time")]
                /\ queue' = Tail(queue)
           ELSE /\ reqs' = [reqs EXCEPT ![i].pc = "write"]
                /\ queue' = Append(Tail(queue), Command("bookInsert", i, 0))
    /\ UNCHANGED <<variant, seedRuns, phase, rows, nextId, restarts>>

\* callback of insertQuery
BookInsert(err) ==
    /\ StoreAnswers(err)
    /\ Head(queue).q = "bookInsert"
    /\ LET i == Head(queue).req
           r == reqs[i]
       IN  IF err
           THEN /\ reqs' = [reqs EXCEPT ![i] = Respond(r, 500, "Failed to book appointment")]
                /\ UNCHANGED <<rows, nextId>>
           ELSE /\ rows' = insertQuery(r)
                /\ nextId' = nextId + 1
                /\ reqs' = [reqs EXCEPT ![i] = Respond(r, 201, "Appointment booked successfully!")]
    /\ queue' = Tail(queue)
    /\ UNCHANGED <<variant, seedRuns, phase, restarts>>

(***************************************************************************)
(* PUT /appointments/:appointment_id   (src/app.js only)                   *)
(***************************************************************************)
Update(appointmentId, b) ==
    /\ Accepting
    /\ variant = "app"
    /\ LET r == Request("update", appointmentId,
                        [patient_id |-> NoId, doctor_id |-> NoId,
                         appointment_date |-> b.appointment_date,
                         appointment_time |-> b.appointment_time], b.status)
           i == Len(reqs) + 1
       IN  IF b.appointment_date = NoText \/ b.appointment_time = NoTime
           THEN /\ reqs' = Append(reqs, Respond(r, 400, "Appointment date and time are required"))
                /\ queue' = queue
           ELSE IF ~isValidTimeSlot(b.appointment_time)
           THEN /\ reqs' = Append(reqs, Respond(r, 400,
                              "Appointment time must be in 30-minute intervals (e.g., 10:00, 10:30)"))
                /\ queue' = queue
           ELSE /\ reqs' = Append(reqs, r)
                /\ queue' = Append(queue, Command("updateCheck", i, 0))
    /\ UNCHANGED <<variant, seedRuns, phase, rows, nextId, errs, restarts>>

\* callback of checkAvailabilityQuery
UpdateCheck(err) ==
    /\ StoreAnswers(err)
    /\ Head(queue).q = "updateCheck"
    /\ LET i == Head(queue).req
           r == reqs[i]
           results == checkAvailabilityQuery(r.appointment_id, r.appointment_date,
                                             r.appointment_time)
       IN  IF err
           THEN /\ reqs' = [reqs EXCEPT ![i] = Respond(r, 500, "Server error")]
                /\ queue' = Tail(queue)
           ELSE IF Cardinality(results) > 0
           THEN /\ reqs' = [reqs EXCEPT ![i] = Respond(r, 400, "Another appointment already exists at this time")]
                /\ queue' = Tail(queue)
           ELSE /\ reqs' = [reqs EXCEPT ![i].pc = "write"]
                /\ queue' = Append(Tail(queue), Command("updateWrite", i, 0))
    /\ UNCHANGED <<variant, seedRuns, phase, rows, nextId, restarts>>

\* Mutant of statusOrScheduled: a missing status is written as it is.
statusAsGiven(status) == status

\* status || 'Scheduled'
statusOrScheduled(status) == IF status # NoText THEN status ELSE "Scheduled"

\* callback of updateQuery
UpdateWrite(err) ==
    /\ StoreAnswers(err)
    /\ Head(queue).q = "updateWrite"
    /\ LET i == Head(queue).req
           r == reqs[i]
       IN  IF err
           THEN /\ reqs' = [reqs EXCEPT ![i] = Respond(r, 500, "Failed to update appointment")]
                /\ rows' = rows
           ELSE /\ rows' = updateQuery(r.appointment_date, r.appointment_time,
                                       statusOrScheduled(r.status),
                                       r.appointment_id)
                /\ reqs' = [reqs EXCEPT ![i] =
                              IF affectedRows(r.appointment_id) = 0
                              THEN Respond(r, 404, "Appointment not found")
                              ELSE Respond(r, 200, "Appointment updated successfully")]
    /\ queue' = Tail(queue)
    /\ UNCHANGED <<variant, seedRuns, phase, nextId, restarts>>

(***************************************************************************)
(* DELETE /appointments/:appointment_id   (src/app.js only)                *)
(***************************************************************************)
Delete(appointmentId) ==
    /\ Accepting
    /\ variant = "app"
    /\ reqs' = Append(reqs, Request("delete", appointmentId,
                        [patient_id |-> NoId, doctor_id |-> NoId,
                         appointment_date |-> NoText, appointment_time |-> NoTime], NoText))
    /\ queue' = Append(queue, Command("delete", Len(reqs) + 1, 0))
    /\ UNCHANGED <<variant, seedRuns, phase, rows, nextId, errs, restarts>>

\* callback of deleteQuery
DeleteDone(err) ==
    /\ StoreAnswers(err)
    /\ Head(queue).q = "delete"
    /\ LET i == Head(queue).req
           r == reqs[i]
       IN  IF err
           THEN /\ reqs' = [reqs EXCEPT ![i] = Respond(r, 500, "Failed to delete appointment")]
                /\ rows' = rows
           ELSE /\ rows' = deleteQuery(r.appointment_id)
                /\ reqs' = [reqs EXCEPT ![i] =
                              IF affectedRows(r.appointment_id) = 0
                              THEN Respond(r, 404, "Appointment not found")
                              ELSE Respond(r, 200, "Appointment deleted successfully")]
    /\ queue' = Tail(queue)
    /\ UNCHANGED <<variant, seedRuns, phase, nextId, restarts>>

(***************************************************************************)
(* GET /   and the list routes                                             *)
(***************************************************************************)
\* app.get('/', (req, res) => res.send('Hello from backend!(Please Work)'))
Hello ==
    /\ Accepting
    /\ reqs' = Append(reqs, Respond(Request("hello", NoId,
                        [patient_id |-> NoId, doctor_id |-> NoId,
                         appointment_date |-> NoText, appointment_time |-> NoTime], NoText),
                        200, "Hello from backend!(Please Work)"))
    /\ UNCHANGED <<variant, seedRuns, phase, rows, nextId, queue, errs, restarts>>

\* Mutant of ListDoctor: the date is not looked at.
ListDoctorAnyDate(doctorId, appointmentDate) ==
    /\ Accepting
    /\ reqs' = Append(reqs, Request("listDoctor", NoId,
                        [patient_id |-> NoId, doctor_id |-> doctorId,
                         appointment_date |-> appointmentDate, appointment_time |-> NoTime], NoText))
    /\ queue' = Append(queue, Command("listDoctor", Len(reqs) + 1, 0))
    /\ UNCHANGED <<variant, seedRuns, phase, rows, nextId, errs, restarts>>

\* GET /appointments/doctor/:doctor_id?date=
ListDoctor(doctorId, appointmentDate) ==
    /\ Accepting
    /\ LET r == Request("listDoctor", NoId,
                        [patient_id |-> NoId, doctor_id |-> doctorId,
                         appointment_date |-> appointmentDate, appointment_time |-> NoTime], NoText)
       IN  IF appointmentDate = NoText
           THEN /\ reqs' = Append(reqs, Respond(r, 400, "Missing appointment date"))
                /\ queue' = queue
           ELSE /\ reqs' = Append(reqs, r)
                /\ queue' = Append(queue, Command("listDoctor", Len(reqs) + 1, 0))
    /\ UNCHANGED <<variant, seedRuns, phase, rows, nextId, errs, restarts>>

\* callback of the list-by-doctor query
ListDoctorDone(err) ==
    /\ StoreAnswers(err)
    /\ Head(queue).q = "listDoctor"
    /\ LET i == Head(queue).req
           r == reqs[i]
       IN  IF err
           THEN reqs' = [reqs EXCEPT ![i] = Respond(r, 500, "Failed to fetch appointments")]
           ELSE \E results \in listDoctorQuery(r.doctor_id, r.appointment_date) :
                    reqs' = [reqs EXCEPT ![i] = RespondJson(r, 200, results)]
    /\ queue' = Tail(queue)
    /\ UNCHANGED <<variant, seedRuns, phase, rows, nextId, restarts>>

\* GET /appointments/patient?patient_id=   (src/app.js only)
ListPatient(patient_id) ==
    /\ Accepting
    /\ variant = "app"
    /\ LET r == Request("listPatient", NoId,
                        [patient_id |-> patient_id, doctor_id |-> NoId,
                         appointment_date |-> NoText, appointment_time |-> NoTime], NoText)
       IN  IF patient_id = NoId
           THEN /\ reqs' = Append(reqs, Respond(r, 400, "patient_id is required"))
                /\ queue' = queue
           ELSE /\ reqs' = Append(reqs, r)
                /\ queue' = Append(queue, Command("listPatient", Len(reqs) + 1, 0))
    /\ UNCHANGED <<variant, seedRuns, phase, rows, nextId, errs, restarts>>

\* callback of the list-by-patient query; res.json(results) answers 200
ListPatientDone(err) ==
    /\ StoreAnswers(err)
    /\ Head(queue).q = "listPatient"
    /\ LET i == Head(queue).req
           r == reqs[i]
       IN  IF err
           THEN reqs' = [reqs EXCEPT ![i] = Respond(r, 500, "Error fetching patient appointments")]
           ELSE \E results \in listPatientQuery(r.patient_id) :
                    reqs' = [reqs EXCEPT ![i] = RespondJson(r, 200, results)]
    /\ queue' = Tail(queue)
    /\ UNCHANGED <<variant, seedRuns, phase, rows, nextId, restarts>>

(***************************************************************************)
(* The seed's callbacks.                                                   *)
(***************************************************************************)
\* callback of checkQuery.  src/app.js: if (err) log; else if
\* (results.length === 0) insert; else log.  part_000: if (err) log; then
\* results.length is read all the same, and results is undefined after a
\* failure: the callback throws and the process ends.
SeedCheck(err) ==
    /\ StoreAnswers(err)
    /\ Head(queue).q = "seedCheck"
    /\ LET k == Head(queue).appt
           results == checkQuery(appointments[k])
       IN  IF err
           THEN IF variant = "app"
                THEN queue' = Tail(queue) /\ phase' = phase
                ELSE queue' = << >> /\ phase' = "crashed"
           ELSE /\ phase' = phase
                /\ IF Cardinality(results) = 0
                   THEN queue' = Append(Tail(queue), Command("seedInsert", 0, k))
                   ELSE queue' = Tail(queue)
    /\ seedRuns' = IF phase' = "crashed" \/ SeedPending(queue')
                   THEN seedRuns ELSE seedRuns + 1
    /\ UNCHANGED <<variant, rows, nextId, reqs, restarts>>

\* callback of the seed's insertQuery: a failure is logged
SeedInsert(err) ==
    /\ StoreAnswers(err)
    /\ Head(queue).q = "seedInsert"
    /\ IF err
       THEN UNCHANGED <<rows, nextId>>
       ELSE /\ rows' = insertQuery(appointments[Head(queue).appt])
            /\ nextId' = nextId + 1
    /\ queue' = Tail(queue)
    /\ seedRuns' = IF SeedPending(queue') THEN seedRuns ELSE seedRuns + 1
    /\ UNCHANGED <<variant, phase, reqs, restarts>>

(***************************************************************************)
(* Specification.                                                          *)
(***************************************************************************)
Init ==
    /\ variant \in {"app", "part"}
    /\ phase = "starting"
    /\ rows = {}
    /\ nextId = 1
    /\ queue = << >>
    /\ reqs = << >>
    /\ errs = 0
    /\ restarts = 0
    /\ seedRuns = 0

Next ==
    \/ \E err \in BOOLEAN : Connect(err)
    \/ Restart
    \/ \E b \in BookBodies : Book(b)
    \/ \E err \in BOOLEAN : BookCheck(err)
    \/ \E err \in BOOLEAN : BookInsert(err)
    \/ \E id \in Ids, b \in UpdateBodies : Update(id, b)
    \/ \E err \in BOOLEAN : UpdateCheck(err)
    \/ \E err \in BOOLEAN : UpdateWrite(err)
    \/ \E id \in Ids : Delete(id)
    \/ \E err \in BOOLEAN : DeleteDone(err)
    \/ Hello
    \/ \E doctorId \in DoctorIds, date \in Dates : ListDoctor(doctorId, date)
    \/ \E err \in BOOLEAN : ListDoctorDone(err)
    \/ \E patient_id \in PatientIds : ListPatient(patient_id)
    \/ \E err \in BOOLEAN : ListPatientDone(err)
    \/ \E err \in BOOLEAN : SeedCheck(err)
    \/ \E err \in BOOLEAN : SeedInsert(err)

Spec == Init /\ [][Next]_vars

(***************************************************************************)
(* Vocabulary of the properties.                                           *)
(***************************************************************************)
SameSlot(x, y) ==
    /\ x.doctor_id = y.doctor_id
    /\ x.appointment_date = y.appointment_date
    /\ x.appointment_time = y.appointment_time

RowsAt(x) == { r \in rows : SameSlot(r, x) }

SeedSlot(x) == \E k \in SeedIdx : SameSlot(appointments[k], x)

\* The text is hh:mm with mm = 00 or 30.
HalfHourMark(time) ==
    /\ Len(time) = 5
    /\ time[3] = ":"
    /\ <<time[4], time[5]>> \in { <<"0", "0">>, <<"3", "0">> }

\* In this step the handler of request i ran the callback it was waiting
\* for at `pc`, and the store had answered without failure.
Ran(i, kind, pc) ==
    /\ i \in DOMAIN reqs
    /\ reqs[i].kind = kind
    /\ reqs[i].pc = pc
    /\ reqs'[i].pc \notin {pc, "lost"}
    /\ reqs'[i].code # 500

\* Request i is answered with this code.
Answered(i, kind, code) ==
    /\ i \in DOMAIN reqs
    /\ reqs[i].kind = kind
    /\ reqs[i].pc = "done"
    /\ reqs[i].code = code

(***************************************************************************)
(* C1.  In every reachable state no two distinct appointment rows have the *)
(* same (doctor_id, appointment_date, appointment_time).                   *)
(***************************************************************************)
C1_SlotUnique ==
    \A r1, r2 \in rows : SameSlot(r1, r2) => r1 = r2

(***************************************************************************)
(* C2.  Two booking requests for the same slot, free and with a valid      *)
(* time, yield exactly one 201 and one 400 'Doctor is already booked at    *)
(* this time', and the store ends with exactly one row for the slot.       *)
(* Stated for two answered bookings that are the only requests, neither    *)
(* answered 500, whose slot is not one the seed fills and was free for at  *)
(* least one of them (one was answered 201).                               *)
(***************************************************************************)
C2_TwoBookingsOneSuccess ==
    \A i, j \in DOMAIN reqs :
        ( /\ i < j
          /\ Len(reqs) = 2
          /\ reqs[i].kind = "book" /\ reqs[j].kind = "book"
          /\ reqs[i].pc = "done" /\ reqs[j].pc = "done"
          /\ SameSlot(reqs[i], reqs[j])
          /\ isValidTimeSlot(reqs[i].appointment_time)
          /\ ~SeedSlot(reqs[i])
          /\ 500 \notin {reqs[i].code, reqs[j].code}
          /\ 201 \in {reqs[i].code, reqs[j].code} )
        => /\ {reqs[i].code, reqs[j].code} = {201, 400}
           /\ \E k \in {i, j} : /\ reqs[k].code = 400
                                /\ reqs[k].message = "Doctor is already booked at this time"
           /\ Cardinality(RowsAt(reqs[i])) = 1

(***************************************************************************)
(* C3.  The availability check and the insert are separate commands and    *)
(* the insert does not look at the slot again: whenever the insert of a    *)
(* booking whose check found the slot free runs, the request is answered   *)
(* 201 and the store gains a row for the slot, whatever the slot holds by  *)
(* then.  The witness is the interleaving of the claim: two bookings of    *)
(* one free slot, both answered 201, two rows in the slot.                 *)
(***************************************************************************)
C3_InsertIgnoresSlot ==
    [][ \A i \in DOMAIN reqs :
          Ran(i, "book", "write")
          => /\ reqs'[i].code = 201
             /\ Cardinality({ r \in rows' : SameSlot(r, reqs[i]) })
                  = Cardinality(RowsAt(reqs[i])) + 1 ]_vars

C3_DoubleBooked ==
    /\ Len(reqs) = 2
    /\ Answered(1, "book", 201)
    /\ Answered(2, "book", 201)
    /\ SameSlot(reqs[1], reqs[2])
    /\ ~SeedSlot(reqs[1])
    /\ HalfHourMark(reqs[1].appointment_time)
    /\ Cardinality(RowsAt(reqs[1])) = 2

(***************************************************************************)
(* C4.  Update of an existing appointment A with a valid new time.  When   *)
(* the conflict check runs and another appointment of A's doctor holds the *)
(* new date/time, the request is answered 400 and no row changes.  When    *)
(* the new date/time are A's own and no other appointment of A's doctor    *)
(* holds them, A does not count as a conflict: the check passes, and the   *)
(* UPDATE that follows answers 200 if A is still there.                    *)
(***************************************************************************)
RowOf(appointmentId) == { a \in rows : a.appointment_id = appointmentId }

OthersAt(i) ==
    { r \in rows : /\ r.appointment_id # reqs[i].appointment_id
                   /\ r.appointment_date = reqs[i].appointment_date
                   /\ r.appointment_time = reqs[i].appointment_time
                   /\ \E a \in RowOf(reqs[i].appointment_id) : r.doctor_id = a.doctor_id }

OwnSlot(i) ==
    \E a \in RowOf(reqs[i].appointment_id) :
        /\ a.appointment_date = reqs[i].appointment_date
        /\ a.appointment_time = reqs[i].appointment_time

C4_UpdateConflict ==
    [][ \A i \in DOMAIN reqs :
          /\ ( Ran(i, "update", "check") /\ RowOf(reqs[i].appointment_id) # {}
               /\ OthersAt(i) # {} )
             => /\ reqs'[i].pc = "done"
                /\ reqs'[i].code = 400
                /\ reqs'[i].message = "Another appointment already exists at this time"
                /\ rows' = rows
                /\ queue' = Tail(queue)
          /\ ( Ran(i, "update", "check") /\ OwnSlot(i) /\ OthersAt(i) = {} )
             => /\ reqs'[i].pc = "write"
                /\ rows' = rows
          /\ ( Ran(i, "update", "write") /\ OwnSlot(i) )
             => /\ reqs'[i].code = 200
                /\ \A a \in RowOf(reqs[i].appointment_id) :
                      /\ \E b \in rows' : /\ b.appointment_id = a.appointment_id
                                          /\ SameSlot(a, b)
                      /\ Cardinality(rows') = Cardinality(rows) ]_vars

\* An update of a seeded appointment to the slot another appointment of its
\* doctor holds was answered 400, then an update of the same appointment to
\* the slot it was seeded in, and still holds, was answered 200.
C4_ConflictThenOwnSlot ==
    /\ Len(reqs) = 2
    /\ Answered(1, "update", 400)
    /\ reqs[1].message = "Another appointment already exists at this time"
    /\ Answered(2, "update", 200)
    /\ reqs[1].appointment_id = reqs[2].appointment_id
    /\ reqs[1].appointment_time # reqs[2].appointment_time
    /\ \E k \in SeedIdx, a \in RowOf(reqs[2].appointment_id) :
          /\ a.patient_id = appointments[k].patient_id
          /\ appointments[k].appointment_date = reqs[2].appointment_date
          /\ appointments[k].appointment_time = reqs[2].appointment_time
          /\ SameSlot(a, appointments[k])
    /\ \E r \in rows : /\ r.appointment_id # reqs[1].appointment_id
                       /\ SameSlot(r, [reqs[1] EXCEPT !.doctor_id = r.doctor_id])
                       /\ \E a \in RowOf(reqs[1].appointment_id) : a.doctor_id = r.doctor_id

(***************************************************************************)
(* C5.  Delete of an id that matches no row answers 404 and leaves the     *)
(* store unchanged; delete of an existing id answers 200 and removes       *)
(* exactly that row; so of two deletes of the same id, the later is        *)
(* answered 404 when the earlier was answered 200.                         *)
(***************************************************************************)
C5_Delete ==
    /\ [][ \A i \in DOMAIN reqs :
             Ran(i, "delete", "check")
             => IF RowOf(reqs[i].appointment_id) = {}
                THEN reqs'[i].code = 404 /\ rows' = rows
                ELSE /\ reqs'[i].code = 200
                     /\ rows' = rows \ RowOf(reqs[i].appointment_id)
                     /\ Cardinality(rows') = Cardinality(rows) - 1 ]_vars
    /\ [] \A i, j \in DOMAIN reqs :
             ( /\ i < j
               /\ Answered(i, "delete", 200)
               /\ reqs[j].kind = "delete" /\ reqs[j].pc = "done"
               /\ reqs[j].appointment_id = reqs[i].appointment_id
               /\ reqs[j].code # 500 )
             => reqs[j].code = 404

C5_DeletedTwice ==
    /\ Len(reqs) = 2
    /\ Answered(1, "delete", 200)
    /\ Answered(2, "delete", 404)
    /\ reqs[1].appointment_id = reqs[2].appointment_id
    /\ rows # {}

(***************************************************************************)
(* Seeding alone: the process starts, seeds, and is restarted (at any      *)
(* point of a run), with no request.                                       *)
(***************************************************************************)
NextSeed ==
    \/ \E err \in BOOLEAN : Connect(err)
    \/ Restart
    \/ \E err \in BOOLEAN : SeedCheck(err)
    \/ \E err \in BOOLEAN : SeedInsert(err)

SpecSeed == Init /\ [][NextSeed]_vars

\* Every tuple of the seed list is in the store exactly once.
AllSeeded ==
    \A k \in SeedIdx :
        Cardinality({ r \in RowsAt(appointments[k]) :
                        r.patient_id = appointments[k].patient_id }) = 1

(***************************************************************************)
(* C6.  The seed routine is idempotent.  Absent store failures, once a run *)
(* has completed every tuple of the list is in the store exactly once and  *)
(* nothing else is, and no step of a later run (after a restart) changes   *)
(* the store.                                                              *)
(***************************************************************************)
C6_SeedIdempotent ==
    /\ [] (seedRuns >= 1 /\ errs = 0 => AllSeeded /\ Cardinality(rows) = SeedLen)
    /\ [][ seedRuns >= 1 /\ errs' = 0 => rows' = rows ]_vars

\* The second run has completed, after the first had, without failures.
C6_SecondRunCompleted ==
    /\ seedRuns = 2
    /\ errs = 0
    /\ AllSeeded

(***************************************************************************)
(* C7.  A booking request for a slot of the seed list is answered 400      *)
(* 'Doctor is already booked at this time' and inserts no row, whenever    *)
(* its availability check runs while a row is in that slot (after seeding, *)
(* for as long as the seeded row is still there).                          *)
(***************************************************************************)
C7_SeedSlotTaken ==
    [][ \A i \in DOMAIN reqs :
          ( Ran(i, "book", "check") /\ SeedSlot(reqs[i]) /\ RowsAt(reqs[i]) # {} )
          => /\ reqs'[i].pc = "done"
             /\ reqs'[i].code = 400
             /\ reqs'[i].message = "Doctor is already booked at this time"
             /\ rows' = rows
             /\ queue' = Tail(queue) ]_vars

\* After a completed seed run, patient 1's booking of doctor 1 on 2025-04-11
\* at 09:00 was answered 400 and the store holds the seeded rows only.
C7_SeededThenRefused ==
    /\ seedRuns >= 1
    /\ AllSeeded
    /\ Cardinality(rows) = SeedLen
    /\ \E i \in DOMAIN reqs :
          /\ Answered(i, "book", 400)
          /\ reqs[i].message = "Doctor is already booked at this time"
          /\ reqs[i].patient_id = 1
          /\ SameSlot(reqs[i], appointments[1])

(***************************************************************************)
(* C8.  An update with valid date and time whose appointment_id matches no *)
(* row is answered 404 'Appointment not found', never 200 and never 400    *)
(* for a taken slot, and leaves the store unchanged: with no such row the  *)
(* conflict check finds nothing and the UPDATE is issued, and an UPDATE    *)
(* that matches no row answers 404.                                        *)
(***************************************************************************)
C8_UpdateNotFound ==
    [][ \A i \in DOMAIN reqs :
          /\ ( Ran(i, "update", "check") /\ RowOf(reqs[i].appointment_id) = {} )
             => /\ reqs'[i].pc = "write"
                /\ reqs'[i].code = 0
                /\ rows' = rows
          /\ ( Ran(i, "update", "write") /\ RowOf(reqs[i].appointment_id) = {} )
             => /\ reqs'[i].code = 404
                /\ reqs'[i].message = "Appointment not found"
                /\ rows' = rows ]_vars

\* An update to a slot that another row holds, naming an id of no row, was
\* answered 404.
C8_NotFoundAnswered ==
    \E i \in DOMAIN reqs :
        /\ Answered(i, "update", 404)
        /\ HalfHourMark(reqs[i].appointment_time)
        /\ RowOf(reqs[i].appointment_id) = {}
        /\ \E r \in rows : /\ r.appointment_date = reqs[i].appointment_date
                           /\ r.appointment_time = reqs[i].appointment_time

(***************************************************************************)
(* C9.  In src/app.js a book or update request whose appointment_time has  *)
(* minutes other than 00 or 30 is answered 400 at once, before any store   *)
(* query is issued, and leaves the store unchanged; so every row of the    *)
(* store has its time on a :00 or :30 mark.                                *)
(***************************************************************************)
\* In this step a request was received.
Received == Len(reqs') = Len(reqs) + 1

Complete(r) ==
    /\ r.patient_id # NoId /\ r.doctor_id # NoId
    /\ r.appointment_date # NoText /\ r.appointment_time # NoTime

C10_Book ==
    [][ /\ \A i \in DOMAIN reqs :
             /\ ( Ran(i, "book", "check") /\ RowsAt(reqs[i]) = {} )
                => /\ reqs'[i].pc = "write"
                   /\ rows' = rows
             /\ Ran(i, "book", "write")
                => /\ reqs'[i].code = 201
                   /\ rows \subseteq rows'
                   /\ \E r \in rows' :
                         /\ rows' \ rows = {r}
                         /\ r.patient_id = reqs[i].patient_id
                         /\ r.doctor_id = reqs[i].doctor_id
                         /\ r.appointment_date = reqs[i].appointment_date
                         /\ r.appointment_time = reqs[i].appointment_time
                         /\ r.status = "Scheduled"
                         /\ \A o \in rows : o.appointment_id # r.appointment_id
        /\ \A i \in DOMAIN reqs' :
             ( /\ reqs'[i].kind = "book"
               /\ reqs'[i].code = 400
               /\ i \in DOMAIN reqs => reqs[i].code # 400 )
             => rows' = rows
        /\ ( Received /\ reqs'[Len(reqs')].kind = "book"
             /\ Complete(reqs'[Len(reqs')])
             /\ HalfHourMark(reqs'[Len(reqs')].appointment_time) )
           => /\ reqs'[Len(reqs')].pc = "check"
              /\ queue' = Append(queue, Command("bookCheck", Len(reqs'), 0))
        /\ ( Received /\ reqs'[Len(reqs')].kind = "book"
             /\ ~Complete(reqs'[Len(reqs')]) )
           => reqs'[Len(reqs')].code = 400 ]_vars

\* One booking was answered 201 and its row is in the store with status
\* 'Scheduled', another booking of the same slot was answered 400.
C10_BookedAndRefused ==
    /\ Len(reqs) = 2
    /\ Answered(1, "book", 201)
    /\ Answered(2, "book", 400)
    /\ SameSlot(reqs[1], reqs[2])
    /\ \E r \in RowsAt(reqs[1]) :
          r.patient_id = reqs[1].patient_id /\ r.status = "Scheduled"
    /\ Cardinality(RowsAt(reqs[1])) = 1

(***************************************************************************)
(* C11, C12: listing a doctor's appointments of a date.                    *)
(***************************************************************************)
\* The times of the model in the order of the clock (a text without ':' is
\* a number of seconds after midnight).
Clock == <<T09, T0900, T0915, T0930, T1000, T1030, T1100>>

ClockAt(time) == CHOOSE n \in DOMAIN Clock : Clock[n] = time

C12_ListDoctorNoDate ==
    [][Received /\ reqs'[Len(reqs')].kind = "listDoctor"
                /\ reqs'[Len(reqs')].appointment_date = NoText
         => /\ reqs'[Len(reqs')].pc = "done"
            /\ reqs'[Len(reqs')].code = 400
            /\ reqs'[Len(reqs')].message = "Missing appointment date"
            /\ queue' = queue
            /\ rows' = rows]_vars

\* Witness of C12: such a request was refused for a doctor who has
\* appointments in the store.
C12_NoDateRefused ==
    \E i \in DOMAIN reqs :
        /\ Answered(i, "listDoctor", 400)
        /\ reqs[i].appointment_date = NoText
        /\ \E a \in rows : a.doctor_id = reqs[i].doctor_id

(***************************************************************************)
(* C13.  The update's conflict check and its UPDATE are two commands: the  *)
(* UPDATE moves the appointment whatever the slot holds by then.           *)
(***************************************************************************)
\* C13: when the UPDATE of an update request runs and the appointment is
\* there, the request is answered 200 and the appointment is moved into the
\* requested slot beside every other row that holds it by then; so an update
\* and a booking (or another update) for one free slot, both checked before
\* either writes, both succeed and leave two rows in the slot.
C13_UpdateIgnoresSlot ==
    [][ \A i \in DOMAIN reqs :
          Ran(i, "update", "write") /\ RowOf(reqs[i].appointment_id) # {}
          => /\ reqs'[i].code = 200
             /\ \E a \in rows' :
                  /\ a.appointment_id = reqs[i].appointment_id
                  /\ a.appointment_date = reqs[i].appointment_date
                  /\ a.appointment_time = reqs[i].appointment_time
                  /\ Cardinality({ r \in rows' : SameSlot(r, a) })
                       = Cardinality(OthersAt(i)) + 1 ]_vars

\* Witness of C13: an update and a booking for one slot outside the seed
\* list were both answered with success, and the slot holds the updated
\* appointment and the booked one.
C13_UpdateAndBookSameSlot ==
    \E i, j \in DOMAIN reqs :
        /\ Answered(i, "update", 200)
        /\ Answered(j, "book", 201)
        /\ reqs[i].appointment_date = reqs[j].appointment_date
        /\ reqs[i].appointment_time = reqs[j].appointment_time
        /\ ~SeedSlot(reqs[j])
        /\ \E a, b \in RowsAt(reqs[j]) :
             /\ a.appointment_id = reqs[i].appointment_id
             /\ b.appointment_id # a.appointment_id
             /\ b.patient_id = reqs[j].patient_id

(***************************************************************************)
(* C16, C17.  What a successful update writes.                             *)
(***************************************************************************)
\* C16: an update answered 200 changes only the date, the time and the
\* status of its appointment: the appointment keeps its id, its patient and
\* its doctor, every other row is unchanged, and so is the number of rows.
C16_UpdateFrame ==
    [][ \A i \in DOMAIN reqs :
          Ran(i, "update", "write") /\ reqs'[i].code = 200
          => /\ Cardinality(rows') = Cardinality(rows)
             /\ \A r \in rows : r.appointment_id # reqs[i].appointment_id => r \in rows'
             /\ \A a \in RowOf(reqs[i].appointment_id) :
                  \E u \in rows' :
                     /\ u.appointment_id = a.appointment_id
                     /\ u.patient_id = a.patient_id
                     /\ u.doctor_id = a.doctor_id
             /\ Cardinality({ u \in rows' : u.appointment_id = reqs[i].appointment_id }) = 1
             /\ nextId' = nextId ]_vars

\* Witness of C16: an update was answered 200 for an appointment that now
\* stands at another time than the seed gave it, beside another row.
C16_MovedBesideOthers ==
    \E i \in DOMAIN reqs :
        /\ Answered(i, "update", 200)
        /\ Cardinality(rows) >= 2
        /\ \E a \in RowOf(reqs[i].appointment_id) :
             /\ a.appointment_time = reqs[i].appointment_time
             /\ \E k \in SeedIdx :
                  /\ appointments[k].patient_id = a.patient_id
                  /\ appointments[k].appointment_time # a.appointment_time

\* C17: an update answered 200 leaves its appointment with the status the
\* request gave, whatever text that is, and with 'Scheduled' when the
\* request gave none, whatever the status was before.
C17_UpdateStatus ==
    [][ \A i \in DOMAIN reqs :
          Ran(i, "update", "write") /\ reqs'[i].code = 200
          => \E u \in rows' :
                /\ u.appointment_id = reqs[i].appointment_id
                /\ reqs[i].status # NoText => u.status = reqs[i].status
                /\ reqs[i].status = NoText => u.status = "Scheduled" ]_vars

\* Witness of C17: an appointment was set to 'Completed' by one update and
\* is 'Scheduled' again after a later update that gave no status.
C17_StatusReset ==
    /\ Len(reqs) = 2
    /\ Answered(1, "update", 200)
    /\ Answered(2, "update", 200)
    /\ reqs[1].appointment_id = reqs[2].appointment_id
    /\ reqs[1].status = "Completed"
    /\ reqs[2].status = NoText
    /\ \E a \in RowOf(reqs[2].appointment_id) :
         a.status = "Scheduled" /\ a.appointment_time = reqs[2].appointment_time
    /\ reqs[1].appointment_time # reqs[2].appointment_time

(***************************************************************************)
(* C14.  One response per request; a store failure ends the request.       *)
(***************************************************************************)
\* The commands of request i that the connection still holds.
Awaited(i) == { n \in DOMAIN queue : queue[n].req = i }

\* An unanswered request waits for exactly one command; an answered one
\* waits for none and has its response.
OneResponseEach ==
    \A i \in DOMAIN reqs :
        IF reqs[i].pc \in {"check", "write"}
        THEN Cardinality(Awaited(i)) = 1 /\ reqs[i].code = 0
        ELSE Awaited(i) = {} /\ (reqs[i].pc = "done" => reqs[i].code # 0)

\* In this step the store answered the command at the head of the queue
\* with a failure.
StoreFailed ==
    /\ queue # << >>
    /\ \/ errs' = errs + 1
       \/ phase = "failed" /\ phase' = "failed" /\ queue' = Tail(queue)

\* A response is never replaced, and a failure of a request's query answers
\* the request 500 in that step, with no further command and no row changed.
ErrorsAreTerminal ==
    \A i \in DOMAIN reqs :
        /\ reqs[i].pc = "done" => reqs'[i] = reqs[i]
        /\ StoreFailed /\ Head(queue).req = i
           => /\ reqs'[i].pc = "done"
              /\ reqs'[i].code = 500
              /\ queue' = Tail(queue)
              /\ rows' = rows

\* C14: every request receives exactly one response as long as the store
\* answers its commands: an unanswered request always has exactly one command
\* waiting, an answered one has none and its response never changes, and a
\* failed command of a request answers it 500 at once with no further
\* command for it.
C14_OneResponse == []OneResponseEach /\ [][ErrorsAreTerminal]_vars

\* The same statement for src/app.js alone.
OneResponseApp == [](variant = "app" => OneResponseEach) /\ [][ErrorsAreTerminal]_vars

(***************************************************************************)
(* C15.  The seed and the connection.                                      *)
(***************************************************************************)
SeedChecks(q) == { n \in DOMAIN q : q[n].q = "seedCheck" }

\* The seed's checks are issued in the step in which the connection comes
\* up, one per entry of the list, and in no other step; a process connects
\* once (only a new process is "starting" again).
SeedOnceAfterConnect ==
    /\ Cardinality(SeedChecks(queue')) > Cardinality(SeedChecks(queue))
       => /\ phase = "starting" /\ phase' = "connected"
          /\ ~SeedPending(queue)
          /\ Cardinality(SeedChecks(queue')) = SeedLen
    /\ phase = "starting" /\ phase' = "connected"
       => Cardinality(SeedChecks(queue')) = SeedLen
    /\ phase # "starting" /\ phase' = "starting" => restarts' = restarts + 1

\* After a failed connection no command of the seed exists, no row is
\* written, and the process stays up until it is stopped from outside.
FailedNeverSeeds ==
    phase = "failed"
    => /\ ~SeedPending(queue) /\ ~SeedPending(queue')
       /\ rows' = rows
       /\ nextId' = nextId
       /\ phase' = "failed" \/ (phase' = "starting" /\ restarts' = restarts + 1)

\* Request i gets its response in this step.
AnsweredNow(i) ==
    /\ i \in DOMAIN reqs'
    /\ reqs'[i].pc = "done"
    /\ i \in DOMAIN reqs => reqs[i].pc # "done"

\* C15 as the claim states it: the seed is started at most once per
\* process and only after the connection succeeded; after a failed
\* connection the seed never runs, no row is inserted, and the process keeps
\* running without serving requests: it answers none.
C15_FailedNotServing ==
    [][ /\ SeedOnceAfterConnect
        /\ FailedNeverSeeds
        /\ phase = "failed" => \A i \in DOMAIN reqs' : ~AnsweredNow(i) ]_vars

\* C15, amended: the seed is started at most once per process and only
\* after the connection succeeded; after a failed connection the seed never
\* runs, no row is inserted, and the process keeps running and keeps
\* answering requests: GET / with 200, a request its handler refuses before
\* any query with 400, and every request that reaches the store with 500.
C15_FailedAnswers500 ==
    [][ /\ SeedOnceAfterConnect
        /\ FailedNeverSeeds
        /\ phase = "failed"
           => \A i \in DOMAIN reqs' :
                AnsweredNow(i)
                => IF i \in DOMAIN reqs
                   THEN reqs'[i].code = 500
                   ELSE \/ reqs'[i].kind = "hello" /\ reqs'[i].code = 200
                        \/ reqs'[i].kind # "hello" /\ reqs'[i].code = 400 ]_vars

\* Witness of C15: the connection of the first process failed, the store is
\* empty, a booking was answered 500 and GET / was answered 200.
C15_FailedStillAnswering ==
    /\ phase = "failed"
    /\ restarts = 0
    /\ rows = {}
    /\ \E i, j \in DOMAIN reqs :
         /\ Answered(i, "book", 500)
         /\ Answered(j, "hello", 200)
         /\ i < j

(***************************************************************************)
(* C18.  Requests handled strictly one at a time: a request is received    *)
(* only when no command is waiting, so its check and its write run with no *)
(* other query in between.  The process is up, its seed has run on an      *)
(* empty store, and only book, update and delete requests arrive.          *)
(***************************************************************************)
Seeded ==
    { [appointment_id |-> k,
       patient_id |-> appointments[k].patient_id,
       doctor_id |-> appointments[k].doctor_id,
       appointment_date |-> appointments[k].appointment_date,
       appointment_time |-> appointments[k].appointment_time,
       status |-> "Scheduled"] : k \in SeedIdx }

\* The first process has connected and its seed has run, before any
\* request: a state the program reaches from Init.
SerialStart ==
    /\ phase = "connected"
    /\ rows = Seeded
    /\ nextId = SeedLen + 1
    /\ queue = << >>
    /\ reqs = << >>
    /\ errs = 0
    /\ restarts = 0
    /\ seedRuns = 1

InitSerial == variant \in {"app", "part"} /\ SerialStart

BookAlone(b) == queue = << >> /\ Book(b)

UpdateAlone(appointmentId, b) == queue = << >> /\ Update(appointmentId, b)

DeleteAlone(appointmentId) == queue = << >> /\ Delete(appointmentId)

NextSerial ==
    \/ \E b \in BookBodies : BookAlone(b)
    \/ \E err \in BOOLEAN : BookCheck(err)
    \/ \E err \in BOOLEAN : BookInsert(err)
    \/ \E id \in Ids, b \in UpdateBodies : UpdateAlone(id, b)
    \/ \E err \in BOOLEAN : UpdateCheck(err)
    \/ \E err \in BOOLEAN : UpdateWrite(err)
    \/ \E id \in Ids : DeleteAlone(id)
    \/ \E err \in BOOLEAN : DeleteDone(err)

SpecSerial == InitSerial /\ [][NextSerial]_vars

\* C18: when book, update and delete requests are handled strictly one at
\* a time from a store in which no two appointments share a slot, no two
\* appointments ever share (doctor_id, appointment_date, appointment_time).
C18_SerialSlotUnique ==
    \A x \in rows : Cardinality(RowsAt(x)) = 1

\* Witness of C18: an update moved a seeded appointment to another time,
\* then a booking took the time it left; both succeeded.
C18_MovedThenRebooked ==
    /\ Len(reqs) = 2
    /\ Answered(1, "update", 200)
    /\ Answered(2, "book", 201)
    /\ \E a \in RowOf(reqs[1].appointment_id) :
         /\ a.appointment_time = reqs[1].appointment_time
         /\ a.doctor_id = reqs[2].doctor_id
         /\ \E k \in SeedIdx :
              /\ appointments[k].patient_id = a.patient_id
              /\ appointments[k].appointment_time = reqs[2].appointment_time
              /\ appointments[k].appointment_time # a.appointment_time
    /\ Cardinality(RowsAt(reqs[2])) = 1

(***************************************************************************)
(* C19.  The seed and occupied slots.                                      *)
(***************************************************************************)
\* C19: whenever the seed inserts the row of an entry of its list, no
\* appointment holds that entry's (doctor_id, appointment_date,
\* appointment_time) at that moment, whoever its patient is.
C19_SeedInsertsIntoFreeSlot ==
    [][ /\ queue # << >>
        /\ Head(queue).q = "seedInsert"
        /\ rows' # rows
        => RowsAt(appointments[Head(queue).appt]) = {} ]_vars

\* The seeded appointment of a slot was deleted, another patient booked the
\* slot, and after a restart the seed put its own row beside that booking.
SeedBesideOtherPatient ==
    /\ Len(reqs) = 2
    /\ Answered(1, "delete", 200)
    /\ Answered(2, "book", 201)
    /\ restarts = 1
    /\ errs = 0
    /\ ~SeedPending(queue)
    /\ \E k \in SeedIdx :
         /\ SameSlot(appointments[k], reqs[2])
         /\ appointments[k].patient_id # reqs[2].patient_id
         /\ Cardinality(RowsAt(reqs[2])) = 2
         /\ \A a \in rows : a.appointment_id # reqs[1].appointment_id
         /\ \E a \in RowsAt(reqs[2]) : a.appointment_id = nextId - 1
                                       /\ a.patient_id = appointments[k].patient_id

=============================================================================
